---- MODULE Spec2Model ----
(***************************************************************************)
(* A model of the gateway streaming core of jina-openai:                   *)
(*   - GatewayStreamer (jina/serve/runtimes/gateway/streamer.py), the      *)
(*     facade: construction, stream_docs, stream, rpc_stream,              *)
(*     process_single_data, close;                                         *)
(*   - AsyncNewLoopRuntime (jina/serve/runtimes/asyncio.py): the cancel    *)
(*     event, the signal handlers, run_forever and teardown;               *)
(*   - the collaborators the facade binds and that are not part of the     *)
(*     sources at hand (RequestStreamer, GrpcConnectionPool, TopologyGraph *)
(*     and the request handler), modelled from their written contract.     *)
(***************************************************************************)
EXTENDS Integers, Sequences, FiniteSets, TLC

\* ------------------------------------------------------------------ bounds
MaxDocs == 2
MaxRequestSize == 2
MaxPrefetch == 1
MaxCloseCalls == 2
MaxReplicas == 3
MaxRetries == 2
MaxCalls == 2
MaxBatchDocs == 3
MaxCtorTries == 2
\* wait_for_ready_or_shutdown: timeouts and the clock, in sleeps of 100 ms
MaxTimeout == 2
MaxClock == 3

\* ------------------------------------------------------------ plain values
None == <<>>
Some(x) == <<x>>

Range(s) == {s[i] : i \in 1..Len(s)}

CeilDiv(n, k) == (n + k - 1) \div k

RECURSIVE Flatten(_)
Flatten(ss) == IF ss = <<>> THEN <<>> ELSE Head(ss) \o Flatten(Tail(ss))

Min(a, b) == IF a <= b THEN a ELSE b

\* An address is a Python str, kept as its sequence of characters.
Digits == <<"1", "2", "3", "4", "5", "6">>
ReplicaAddr(i) == <<"r", Digits[i]>>
R1 == <<"r", "1">>
R2 == <<"r", "2">>
R3 == <<"r", "3">>

\* --------------------------------------------------------------- variables
VARIABLES
    \* constructor arguments of GatewayStreamer
    graph_representation, executor_addresses, retries, prefetch,
    \* arguments of the stream_docs / stream call
    api, docs, request_size, return_results, results_in_order,
    exec_endpoint, target_executor, parameters,
    \* the request streamer, one client stream
    started, pulled, slot, resp, delivered, yielded, floating,
    \* the connection pool
    connections, poolClosed, toClose, chanCloses,
    \* close()
    closePhase, closeReturned, floatAtClose,
    \* observations of the RPC layer
    rpcAfterClose, lastRejected,
    \* the connection pool: calls of send_requests_once
    behaviour, rrCounter, unhealthy, callState, attempts, callResp,
    \* the request handler: one request's walk of the topology
    nodeState, walkLayer, walkResp,
    \* how the client stream ended, and the hard-shutdown flag
    streamStatus, hardShutdown,
    \* GatewayStreamer.__init__ in progress
    ctorPos, ctorFailed, ctorTries,
    \* AsyncNewLoopRuntime: cancel event, run_forever, teardown
    eventKind, is_cancel, rfState, arfState, waitPc, cancelCalls, bodyCancelled,
    tdPos,
    \* the process environment and the last get_streamer()
    environ, getResult,
    \* AsyncNewLoopRuntime.__init__ and the warmup task
    rtCtorPos, setupStartsWarmup, warmup_task, stop_event, wuPc, wuTask,
    \* one call of _ExecutorStreamer.post
    postPc, postOrder, postResp, postDocs,
    \* one call of wait_for_ready_or_shutdown
    wTimeout, health_check, elapsed, readyEvent, wfPc, wfResult

ctorVars == <<graph_representation, executor_addresses, retries, prefetch>>
callVars == <<api, docs, request_size, return_results, results_in_order,
              exec_endpoint, target_executor, parameters>>
streamVars == <<started, pulled, slot, resp, delivered, yielded, floating>>
poolVars == <<connections, poolClosed, toClose, chanCloses>>
closeVars == <<closePhase, closeReturned, floatAtClose>>
obsVars == <<rpcAfterClose, lastRejected>>

sendVars == <<behaviour, rrCounter, unhealthy, callState, attempts, callResp>>
walkVars == <<nodeState, walkLayer, walkResp>>

cancelVars == <<streamStatus, hardShutdown>>
buildVars == <<ctorPos, ctorFailed, ctorTries>>
rtVars == <<eventKind, is_cancel, rfState, arfState, waitPc, cancelCalls, bodyCancelled, tdPos>>

envVars == <<environ, getResult>>
warmVars == <<rtCtorPos, setupStartsWarmup, warmup_task, stop_event, wuPc, wuTask>>
postVars == <<postPc, postOrder, postResp, postDocs>>
readyVars == <<wTimeout, health_check, elapsed, readyEvent, wfPc, wfResult>>
asideVars == <<envVars, warmVars, postVars, readyVars>>

\* The streamer, its pool and the runtime's cancel event and teardown.
coreVars == <<ctorVars, callVars, streamVars, poolVars, closeVars, obsVars, sendVars,
              walkVars, cancelVars, buildVars, rtVars>>

vars == <<coreVars, asideVars>>

\* The environment variables a streamer's arguments may be kept in.
EnvNames == {"JINA_STREAMER_ARGS", "GATEWAY_STREAMER_ARGS"}

\* ------------------------------------------------------ graph representation
\* graph_representation is a dict {node: [successors]}, kept in insertion order.
START == "start-gateway"
END == "end-gateway"

LinearGraph ==
    << [node |-> START, outs |-> <<"a">>],
       [node |-> "a", outs |-> <<END>>] >>

FloatingGraph ==
    << [node |-> START, outs |-> <<"a", "f">>],
       [node |-> "a", outs |-> <<END>>],
       [node |-> "f", outs |-> <<>>] >>

GraphNodes(g) ==
    {g[i].node : i \in 1..Len(g)} \cup UNION {Range(g[i].outs) : i \in 1..Len(g)}

GraphSucc(g, n) == UNION {Range(g[i].outs) : i \in {j \in 1..Len(g) : g[j].node = n}}

RECURSIVE GraphReach(_, _, _)
GraphReach(g, S, k) ==
    IF k = 0 THEN S
    ELSE GraphReach(g, S \cup UNION {GraphSucc(g, n) : n \in S}, k - 1)

Descendants(g, n) ==
    GraphReach(g, GraphSucc(g, n), Cardinality(GraphNodes(g)))

\* Nodes that do not feed the end node: executed for side effects only.
FloatingNodes(g) ==
    {n \in GraphNodes(g) \ {START, END} : END \notin Descendants(g, n)}

\* ----------------------------------------------------------- construction
\* executor_addresses is a dict {deployment: str | [str]}, kept in insertion
\* order as a sequence of [name, addresses]; addresses is tagged with its
\* Python type: a list holds its addresses, a str is the one address.
AddrList(items) == [kind |-> "list", items |-> items]
AddrStr(chars) == [kind |-> "str", items |-> <<chars>>]

\* `for address in addresses`: a list yields its elements, a str yields its
\* characters, each a str of length one.
PyIter(a) ==
    IF a.kind = "list" THEN a.items
    ELSE [i \in 1..Len(a.items[1]) |-> <<a.items[1][i]>>]

\* add_connection: creates the channel, or reuses the one already there.
AddConnection(pool, deployment, address) ==
    LET e == [deployment |-> deployment, address |-> address]
    IN IF e \in Range(pool) THEN pool ELSE Append(pool, e)

RECURSIVE AddConnections(_, _, _, _)
AddConnections(pool, deployment, addrs, i) ==
    IF i > Len(addrs) THEN pool
    ELSE AddConnections(AddConnection(pool, deployment, addrs[i]), deployment, addrs, i + 1)

RECURSIVE CreateConnectionPoolFrom(_, _, _)
CreateConnectionPoolFrom(pool, deployments_addresses, i) ==
    IF i > Len(deployments_addresses) THEN pool
    ELSE CreateConnectionPoolFrom(
            AddConnections(pool, deployments_addresses[i].name,
                           PyIter(deployments_addresses[i].addresses), 1),
            deployments_addresses, i + 1)

CreateConnectionPool(deployments_addresses) ==
    CreateConnectionPoolFrom(<<>>, deployments_addresses, 1)

\* __init__ builds the topology graph, then the connection pool, then the
\* request streamer.
CtorSteps_PoolFirst == <<"connection_pool", "topology_graph", "request_streamer">>
CtorSteps == <<"topology_graph", "connection_pool", "request_streamer">>

\* The constructor has returned: the streamer exists and can be called.
Constructed == ctorPos = Len(CtorSteps) /\ ~ctorFailed

\* The prefetch the constructor hands to the RequestStreamer.
StreamerPrefetch_Default == 0
StreamerPrefetch == prefetch

\* ------------------------------------------------------------- stream_docs
\* docs.batch(batch_size, shuffle=False): consecutive slices of batch_size.
\* A batch_size that is not positive makes no slice: the iteration raises
\* at its first step instead (BatchRaises).
BatchRaises(batch_size) == batch_size <= 0

Batch_DropPartial(d, batch_size) ==
    IF BatchRaises(batch_size) THEN <<>>
    ELSE [j \in 1..(Len(d) \div batch_size) |->
            SubSeq(d, (j - 1) * batch_size + 1, j * batch_size)]
Batch(d, batch_size) ==
    IF BatchRaises(batch_size) THEN <<>>
    ELSE [j \in 1..((Len(d) + batch_size - 1) \div batch_size) |->
            SubSeq(d, (j - 1) * batch_size + 1, Min(j * batch_size, Len(d)))]

\* Python truthiness of an optional str and of an optional dict (a dict is
\* kept as its set of items).
TruthyStr(x) == x # None /\ x[1] # ""
TruthyDict(x) == x # None /\ x[1] # {}

\* A fresh DataRequest: empty header fields and empty parameters.
DefaultExecEndpoint == ""
DefaultTargetExecutor == ""
DefaultParameters == {}

\* The header fields _req_generator sets on each request: an argument that
\* is falsy is not written and leaves the fresh request's value.
ReqHeader_Unset(ee, te, pa) ==
    [exec_endpoint |-> DefaultExecEndpoint,
     target_executor |-> DefaultTargetExecutor,
     parameters |-> DefaultParameters]
ReqHeader(ee, te, pa) ==
    [exec_endpoint |-> IF TruthyStr(ee) THEN ee[1] ELSE DefaultExecEndpoint,
     target_executor |-> IF TruthyStr(te) THEN te[1] ELSE DefaultTargetExecutor,
     parameters |-> IF TruthyDict(pa) THEN pa[1] ELSE DefaultParameters]

\* _req_generator: one DataRequest per batch, in document order; it closes
\* over exec_endpoint, target_executor and parameters of the call.
ReqGenerator_TrailingEmpty(d, size) ==
    LET b == Append(Batch(d, size), <<>>)
        h == ReqHeader(exec_endpoint, target_executor, parameters)
    IN [j \in 1..Len(b) |->
          [id |-> j, docs |-> b[j], exec_endpoint |-> h.exec_endpoint,
           target_executor |-> h.target_executor, parameters |-> h.parameters]]
ReqGenerator(d, size) ==
    LET b == Batch(d, size)
        h == ReqHeader(exec_endpoint, target_executor, parameters)
    IN [j \in 1..Len(b) |->
          [id |-> j, docs |-> b[j], exec_endpoint |-> h.exec_endpoint,
           target_executor |-> h.target_executor, parameters |-> h.parameters]]

Requests == ReqGenerator(docs, request_size)
NumRequests == Len(Requests)

\* The results_in_order that stream_docs hands to rpc_stream, which forwards
\* it to the RequestStreamer.
RpcStreamInOrder_Dropped == FALSE
RpcStreamInOrder == results_in_order

\* stream_docs: the response itself, or its documents.
StreamDocsYield(r, rr) == IF rr THEN r ELSE r.docs

\* stream: the ExecutorError unpacked from status.exception, or None.
StreamError_Always(result) ==
    Some([name |-> result.exception.name, args |-> result.exception.args,
          stacks |-> result.exception.stacks, executor |-> result.exception.executor])
StreamError(result) ==
    IF result.code = "ERROR"
    THEN Some([name |-> result.exception.name, args |-> result.exception.args,
               stacks |-> result.exception.stacks, executor |-> result.exception.executor])
    ELSE None

\* stream: iterates stream_docs with return_results forced to True.
StreamYield(result, rr) ==
    <<IF rr THEN result ELSE result.docs, StreamError(result)>>

FacadeYield(r) ==
    IF api = "stream"
    THEN StreamYield(StreamDocsYield(r, TRUE), return_results)
    ELSE StreamDocsYield(r, return_results)

\* ------------------------------------------------- responses of the handler
NoException == [name |-> "", args |-> <<>>, stacks |-> <<>>, executor |-> ""]
BoomException == [name |-> "Boom", args |-> <<"boom">>, stacks |-> <<"trace">>, executor |-> "a"]
PoolClosedException == [name |-> "PoolClosedError", args |-> <<>>, stacks |-> <<>>, executor |-> ""]

HandlerResponse(req, outcome) ==
    [id |-> req.id, docs |-> req.docs,
     code |-> IF outcome = "OK" THEN "OK" ELSE "ERROR",
     exception |-> CASE outcome = "OK" -> NoException
                     [] outcome = "ERROR" -> BoomException
                     [] OTHER -> PoolClosedException]

\* ------------------------------------------------------------ pool: sends
\* A send on a closed pool raises PoolClosedError and reaches no replica.
PoolSendOutcome(o) == IF poolClosed THEN "PoolClosedError" ELSE o

ReplicaOutcomes == {"OK", "ERROR"}

\* What the RPC layer saw of a send made through `via`: an RPC that reached a
\* replica after close() had returned, or the last send refused after it.
ObserveSend(via, o) ==
    /\ rpcAfterClose' =
          (rpcAfterClose \/ (closeReturned > 0 /\ PoolSendOutcome(o) # "PoolClosedError"))
    /\ lastRejected' =
          IF closeReturned > 0 /\ PoolSendOutcome(o) = "PoolClosedError"
          THEN via ELSE lastRejected

\* -------------------------------------------------------- request streamer
\* Requests dispatched to the handler and not yet delivered.
InFlight == {i \in 1..NumRequests : slot[i] \in {"IN_FLIGHT", "READY"}}

\* A prefetch of 0 is unbounded; otherwise a slot must be free.
SlotFree(p) == p = 0 \/ Cardinality(InFlight) < p

\* In input order a response waits for every earlier request to be delivered.
MayDeliver(i, inOrder) ==
    /\ slot[i] = "READY"
    /\ inOrder => \A j \in 1..(i - 1) : slot[j] = "DONE"

\* The stream goes on only while it was neither ended nor cancelled.
StreamOpen_Always == TRUE
StreamOpen == streamStatus = "open"

\* wait_floating_requests_end returns once the registry is drained.
WaitFloatingRequestsEnd_Early == TRUE
WaitFloatingRequestsEnd == floating = {}

\* stream_docs and stream are async generator functions: the call runs none
\* of the body, checks no argument and hands back an open iterator.
CallTimeStatus(size) == "open"

\* The client calls stream_docs or stream.
StreamCall ==
    /\ Constructed
    /\ ~started
    /\ started' = TRUE
    /\ streamStatus' = CallTimeStatus(request_size)
    /\ UNCHANGED <<pulled, slot, resp, delivered, yielded, floating, hardShutdown>>
    /\ UNCHANGED <<ctorVars, asideVars, buildVars, rtVars, sendVars, walkVars, callVars, poolVars, closeVars, obsVars>>

\* The streamer takes the next request from the iterator and dispatches it
\* to the handler; the request's floating tasks join the registry.
Pull ==
    /\ started
    /\ StreamOpen
    /\ pulled < NumRequests
    /\ SlotFree(StreamerPrefetch)
    /\ pulled' = pulled + 1
    /\ slot' = [slot EXCEPT ![pulled + 1] = "IN_FLIGHT"]
    /\ floating' = IF FloatingNodes(graph_representation) # {}
                   THEN floating \cup {pulled + 1} ELSE floating
    /\ UNCHANGED <<started, resp, delivered, yielded>>
    /\ UNCHANGED <<ctorVars, asideVars, cancelVars, buildVars, rtVars, sendVars, walkVars, callVars, poolVars, closeVars, obsVars>>

\* The handler of request i sends to the deployment and gets its response.
HandlerSend(i, o) ==
    /\ StreamOpen
    /\ slot[i] = "IN_FLIGHT"
    /\ slot' = [slot EXCEPT ![i] = "READY"]
    /\ resp' = [resp EXCEPT ![i] = Some(HandlerResponse(Requests[i], PoolSendOutcome(o)))]
    /\ ObserveSend("stream", o)
    /\ UNCHANGED <<started, pulled, delivered, yielded, floating>>
    /\ UNCHANGED <<ctorVars, asideVars, cancelVars, buildVars, rtVars, sendVars, walkVars, callVars, poolVars, closeVars>>

\* The floating task of request i sends to its deployment and completes.
FloatingRun(i, o) ==
    /\ i \in floating
    /\ floating' = floating \ {i}
    /\ ObserveSend("floating", o)
    /\ UNCHANGED <<started, pulled, slot, resp, delivered, yielded>>
    /\ UNCHANGED <<ctorVars, asideVars, cancelVars, buildVars, rtVars, sendVars, walkVars, callVars, poolVars, closeVars>>

\* The streamer hands out the response of request i (delivered), and the
\* facade yields it to the consumer in the form the call asked for (yielded).
Deliver(i) ==
    /\ StreamOpen
    /\ MayDeliver(i, RpcStreamInOrder)
    /\ slot' = [slot EXCEPT ![i] = "DONE"]
    /\ delivered' = Append(delivered, i)
    /\ yielded' = Append(yielded, FacadeYield(resp[i][1]))
    /\ UNCHANGED <<started, pulled, resp, floating>>
    /\ UNCHANGED <<ctorVars, asideVars, cancelVars, buildVars, rtVars, sendVars, walkVars, callVars, poolVars, closeVars, obsVars>>

\* The request iterator is exhausted and every response was handed out: the
\* iteration of rpc_stream ends and with it the generator of the facade.
StreamReturn ==
    /\ started
    /\ streamStatus = "open"
    /\ ~BatchRaises(request_size)
    /\ pulled = NumRequests
    /\ \A i \in 1..NumRequests : slot[i] = "DONE"
    /\ streamStatus' = "returned"
    /\ UNCHANGED <<hardShutdown, buildVars, rtVars>>
    /\ UNCHANGED <<ctorVars, asideVars, sendVars, walkVars, callVars, streamVars, poolVars, closeVars, obsVars>>

\* The first step of the request iterator raises the error of docs.batch;
\* no request was built.
PullRaises ==
    /\ started
    /\ streamStatus = "open"
    /\ BatchRaises(request_size)
    /\ streamStatus' = "raised"
    /\ UNCHANGED <<hardShutdown, buildVars, rtVars>>
    /\ UNCHANGED <<ctorVars, asideVars, sendVars, walkVars, callVars, streamVars, poolVars, closeVars, obsVars>>

\* The consumer stops iterating ("stopped") or the cancel signal fires
\* ("cancelled"): the streamer stops pulling and delivering; the floating
\* tasks stay registered unless the hard-shutdown flag is set.
StreamCancel(how) ==
    /\ started
    /\ streamStatus = "open"
    /\ streamStatus' = how
    /\ floating' = IF hardShutdown THEN {} ELSE floating
    /\ UNCHANGED <<started, pulled, slot, resp, delivered, yielded, hardShutdown>>
    /\ UNCHANGED <<ctorVars, asideVars, buildVars, rtVars, sendVars, walkVars, callVars, poolVars, closeVars, obsVars>>

\* A dispatch in flight when the stream was cancelled is cancelled at its
\* next suspension point: its pool call ends without a response.
CancelDispatch(i) ==
    /\ streamStatus \in {"stopped", "cancelled"}
    /\ slot[i] = "IN_FLIGHT"
    /\ slot' = [slot EXCEPT ![i] = "CANCELLED"]
    /\ UNCHANGED <<started, pulled, resp, delivered, yielded, floating>>
    /\ UNCHANGED <<ctorVars, asideVars, cancelVars, buildVars, rtVars, sendVars, walkVars, callVars, poolVars, closeVars, obsVars>>

\* process_single_data: one request in, one response out.
ProcessSingleData(o) ==
    /\ ObserveSend("process_single_data", o)
    /\ UNCHANGED <<ctorVars, asideVars, cancelVars, buildVars, rtVars, sendVars, walkVars, callVars, streamVars, poolVars, closeVars>>

\* A send made on the pool directly.
DirectPoolSend(o) ==
    /\ ObserveSend("pool", o)
    /\ UNCHANGED <<ctorVars, asideVars, cancelVars, buildVars, rtVars, sendVars, walkVars, callVars, streamVars, poolVars, closeVars>>

\* ------------------------------------------------------------------- close
\* pool.close(): marks the pool closed and sets out to close every channel.
PoolCloseBegin ==
    /\ poolClosed' = TRUE
    /\ toClose' = Range(connections)

\* A closed channel's entry leaves the pool.
PoolRemoveEntry_Kept(pool, c) == pool
PoolRemoveEntry(pool, c) == SelectSeq(pool, LAMBDA e : e # c)

\* close() awaits wait_floating_requests_end() before it goes on.
CloseMayStartPool_NoWait == TRUE
CloseMayStartPool == WaitFloatingRequestsEnd

\* close() then awaits the pool's close().
GatewayClosePool_Skipped == UNCHANGED <<poolClosed, toClose>>
GatewayClosePool == PoolCloseBegin

CloseCall ==
    /\ closePhase = "idle"
    /\ closeReturned < MaxCloseCalls
    /\ closePhase' = "waiting"
    /\ floatAtClose' = floating
    /\ UNCHANGED closeReturned
    /\ UNCHANGED <<ctorVars, asideVars, cancelVars, buildVars, rtVars, sendVars, walkVars, callVars, streamVars, poolVars, obsVars>>

CloseStartPool ==
    /\ closePhase = "waiting"
    /\ CloseMayStartPool
    /\ GatewayClosePool
    /\ closePhase' = "closing"
    /\ UNCHANGED <<connections, chanCloses, closeReturned, floatAtClose>>
    /\ UNCHANGED <<ctorVars, asideVars, cancelVars, buildVars, rtVars, sendVars, walkVars, callVars, streamVars, obsVars>>

CloseChannel(c) ==
    /\ closePhase = "closing"
    /\ c \in toClose
    /\ toClose' = toClose \ {c}
    /\ chanCloses' = [chanCloses EXCEPT ![c] = @ + 1]
    /\ connections' = PoolRemoveEntry(connections, c)
    /\ UNCHANGED <<poolClosed, closeVars>>
    /\ UNCHANGED <<ctorVars, asideVars, cancelVars, buildVars, rtVars, sendVars, walkVars, callVars, streamVars, obsVars>>

CloseReturn ==
    /\ closePhase = "closing"
    /\ toClose = {}
    /\ closePhase' = "idle"
    /\ closeReturned' = closeReturned + 1
    /\ UNCHANGED floatAtClose
    /\ UNCHANGED <<ctorVars, asideVars, cancelVars, buildVars, rtVars, sendVars, walkVars, callVars, streamVars, poolVars, obsVars>>

\* ------------------------------------------------------------ specification
DocsOfLen(n) == [i \in 1..n |-> i]

AddressesFor(g) ==
    IF FloatingNodes(g) = {}
    THEN << [name |-> "a", addresses |-> AddrList(<<R1, R2>>)] >>
    ELSE << [name |-> "a", addresses |-> AddrList(<<R1>>)],
            [name |-> "f", addresses |-> AddrList(<<R2>>)] >>

\* The streamer, the pool and close() right after construction.
InitGateway ==
    /\ started = FALSE
    /\ pulled = 0
    /\ slot = [i \in 1..NumRequests |-> "PENDING"]
    /\ resp = [i \in 1..NumRequests |-> None]
    /\ delivered = <<>>
    /\ yielded = <<>>
    /\ floating = {}
    /\ connections = CreateConnectionPool(executor_addresses)
    /\ poolClosed = FALSE
    /\ toClose = {}
    /\ chanCloses = [c \in Range(connections) |-> 0]
    /\ closePhase = "idle"
    /\ closeReturned = 0
    /\ floatAtClose = {}
    /\ rpcAfterClose = FALSE
    /\ lastRejected = "none"
    /\ streamStatus = "open"

\* A streamer whose constructor has returned.
InitBuilt ==
    /\ ctorPos = Len(CtorSteps)
    /\ ctorFailed = FALSE
    /\ ctorTries = 1

\* No runtime is running: the cancel event is unset, run_forever and
\* teardown have not been called.
InitRuntimeIdle ==
    /\ eventKind = "asyncio"
    /\ is_cancel = FALSE
    /\ rfState = "idle"
    /\ arfState = "idle"
    /\ waitPc = "idle"
    /\ cancelCalls = 0
    /\ bodyCancelled = FALSE
    /\ tdPos = 0

\* Nothing else is going on: the environment is empty, no runtime is being
\* constructed, no warmup, no post and no readiness wait is running.
InitEnvIdle ==
    /\ environ = [n \in EnvNames |-> None]
    /\ getResult = None

InitWarmIdle ==
    /\ rtCtorPos = 0
    /\ setupStartsWarmup = FALSE
    /\ warmup_task = None
    /\ stop_event = FALSE
    /\ wuPc = "none"
    /\ wuTask = <<>>

InitPostIdle ==
    /\ postPc = "idle"
    /\ postOrder = <<>>
    /\ postResp = <<>>
    /\ postDocs = None

InitReadyIdle ==
    /\ wTimeout = None
    /\ health_check = FALSE
    /\ elapsed = 0
    /\ readyEvent = FALSE
    /\ wfPc = "idle"
    /\ wfResult = None

InitAside == InitEnvIdle /\ InitWarmIdle /\ InitPostIdle /\ InitReadyIdle

\* A call that sets none of the optional arguments.
InitPlainCall ==
    /\ exec_endpoint = None
    /\ target_executor = None
    /\ parameters = None
    /\ hardShutdown = FALSE

\* No call of send_requests_once has been made.
InitSends ==
    /\ rrCounter = 0
    /\ unhealthy = {}
    /\ callState = [c \in 1..MaxCalls |-> "idle"]
    /\ attempts = [c \in 1..MaxCalls |-> <<>>]
    /\ callResp = [c \in 1..MaxCalls |-> None]

\* No request is walking the topology.
InitWalk ==
    /\ nodeState = [n \in GraphNodes(graph_representation) \ {START, END} |-> "pending"]
    /\ walkLayer = 0
    /\ walkResp = None

Init ==
    /\ graph_representation \in {LinearGraph, FloatingGraph}
    /\ executor_addresses = AddressesFor(graph_representation)
    /\ retries = 0
    /\ prefetch \in 0..MaxPrefetch
    /\ InitAside
    /\ api \in {"stream_docs", "stream"}
    /\ docs \in {DocsOfLen(n) : n \in 0..MaxDocs}
    /\ request_size \in 1..MaxRequestSize
    /\ return_results \in BOOLEAN
    /\ results_in_order \in BOOLEAN
    /\ InitPlainCall
    /\ InitBuilt
    /\ InitRuntimeIdle
    /\ InitGateway
    /\ behaviour = [c \in Range(connections) |-> "ok"]
    /\ InitSends
    /\ InitWalk

Next ==
    \/ StreamCall
    \/ Pull
    \/ \E i \in 1..NumRequests, o \in ReplicaOutcomes : HandlerSend(i, o)
    \/ \E i \in 1..NumRequests, o \in ReplicaOutcomes : FloatingRun(i, o)
    \/ \E i \in 1..NumRequests : Deliver(i)
    \/ \E o \in ReplicaOutcomes : ProcessSingleData(o)
    \/ \E o \in ReplicaOutcomes : DirectPoolSend(o)
    \/ CloseCall
    \/ CloseStartPool
    \/ \E c \in toClose : CloseChannel(c)
    \/ CloseReturn

Spec == Init /\ [][Next]_vars

\* ------------------------------------------------- a stream that is cancelled
InitCancel ==
    /\ graph_representation \in {LinearGraph, FloatingGraph}
    /\ executor_addresses = AddressesFor(graph_representation)
    /\ retries = 0
    /\ prefetch \in 0..MaxPrefetch
    /\ InitAside
    /\ api = "stream_docs"
    /\ docs \in {DocsOfLen(n) : n \in 0..MaxDocs}
    /\ request_size = 1
    /\ return_results = TRUE
    /\ results_in_order \in BOOLEAN
    /\ exec_endpoint = None
    /\ target_executor = None
    /\ parameters = None
    /\ hardShutdown \in BOOLEAN
    /\ InitBuilt
    /\ InitRuntimeIdle
    /\ InitGateway
    /\ behaviour = [c \in Range(connections) |-> "ok"]
    /\ InitSends
    /\ InitWalk

NextCancel ==
    \/ StreamCall
    \/ Pull
    \/ \E i \in 1..NumRequests, o \in ReplicaOutcomes : HandlerSend(i, o)
    \/ \E i \in 1..NumRequests, o \in ReplicaOutcomes : FloatingRun(i, o)
    \/ \E i \in 1..NumRequests : Deliver(i)
    \/ StreamReturn
    \/ \E how \in {"stopped", "cancelled"} : StreamCancel(how)
    \/ \E i \in 1..NumRequests : CancelDispatch(i)
    \/ CloseCall
    \/ CloseStartPool
    \/ \E c \in toClose : CloseChannel(c)
    \/ CloseReturn

SpecCancel == InitCancel /\ [][NextCancel]_vars

\* ------------------------------------------ stream_docs over an echo topology
\* One call of stream_docs or stream on a streamer whose single executor
\* answers every request with the documents it was sent.
ExecEndpoints == {None, Some(""), Some("/foo")}
TargetExecutors == {None, Some("a")}
ParameterDicts == {None, Some({}), Some({<<"k", "v">>})}

InitDocs ==
    /\ graph_representation = LinearGraph
    /\ executor_addresses = AddressesFor(graph_representation)
    /\ retries = 0
    /\ prefetch \in 0..MaxPrefetch
    /\ InitAside
    /\ api \in {"stream_docs", "stream"}
    /\ docs \in {DocsOfLen(n) : n \in 0..MaxBatchDocs}
    /\ request_size \in 0..(MaxBatchDocs + 1)
    /\ return_results \in BOOLEAN
    /\ results_in_order \in BOOLEAN
    /\ exec_endpoint \in ExecEndpoints
    /\ target_executor \in TargetExecutors
    /\ parameters \in ParameterDicts
    /\ hardShutdown = FALSE
    /\ InitBuilt
    /\ InitRuntimeIdle
    /\ InitGateway
    /\ behaviour = [c \in Range(connections) |-> "ok"]
    /\ InitSends
    /\ InitWalk

NextDocs ==
    \/ StreamCall
    \/ Pull
    \/ PullRaises
    \/ \E i \in 1..NumRequests : HandlerSend(i, "OK")
    \/ \E i \in 1..NumRequests : Deliver(i)
    \/ StreamReturn

SpecDocs == InitDocs /\ [][NextDocs]_vars

\* ----------------------------------------------- pool: send_requests_once
\* The replicas of a deployment, in the order their connections were added.
Ring(d) == SelectSeq(connections, LAMBDA e : e.deployment = d)

RingIndex(d, r) == CHOOSE i \in 1..Len(Ring(d)) : Ring(d)[i] = r

\* Replica selection: the deployment's counter modulo the ring. A replica
\* marked unhealthy stays in the ring and is tried again when its turn comes.
PoolPick(d) == Ring(d)[(rrCounter % Len(Ring(d))) + 1]

\* Every pick, first try or retry, moves the counter on to the next replica.
NextCounter_Stuck(k) == k
NextCounter(k) == k + 1

\* The retries the constructor hands to the TopologyGraph, whose nodes hand
\* it to the pool with every send.
GraphRetries_OffByOne == retries + 1
GraphRetries == retries

\* Only a transport failure is retried; a response the executor answered,
\* OK or ERROR, is final.
Retriable_AnyError(o) == o \in {"fail", "error"}
Retriable(o) == o = "fail"

TransportException ==
    [name |-> "TransportError", args |-> <<"unavailable">>, stacks |-> <<>>, executor |-> ""]

SendResponse(r, o) ==
    [code |-> IF o = "ok" THEN "OK" ELSE "ERROR",
     exception |-> CASE o = "ok" -> NoException
                     [] o = "error" -> BoomException
                     [] o = "fail" -> TransportException
                     [] OTHER -> PoolClosedException]

\* A caller invokes send_requests_once on deployment "a".
SendCall(c) ==
    /\ callState[c] = "idle"
    /\ callState' = [callState EXCEPT ![c] = "trying"]
    /\ UNCHANGED <<behaviour, rrCounter, unhealthy, attempts, callResp>>
    /\ UNCHANGED <<ctorVars, asideVars, cancelVars, buildVars, rtVars, callVars, streamVars, poolVars, closeVars, obsVars, walkVars>>

\* One send attempt of call c: pick a replica, send, and either finish with
\* the replica's response, retry, or give up with the transport error.
SendAttempt(c) ==
    /\ callState[c] = "trying"
    /\ IF poolClosed
       THEN /\ callState' = [callState EXCEPT ![c] = "done"]
            /\ callResp' = [callResp EXCEPT ![c] = Some(SendResponse(None, "PoolClosedError"))]
            /\ UNCHANGED <<rrCounter, unhealthy, attempts>>
       ELSE LET r == PoolPick("a")
                o == behaviour[r]
                final == ~Retriable(o) \/ Len(attempts[c]) + 1 >= GraphRetries + 1
            IN /\ rrCounter' = NextCounter(rrCounter)
               /\ attempts' = [attempts EXCEPT ![c] = Append(@, [replica |-> r, tick |-> rrCounter])]
               /\ unhealthy' = IF o = "fail" THEN unhealthy \cup {r} ELSE unhealthy \ {r}
               /\ callState' = [callState EXCEPT ![c] = IF final THEN "done" ELSE "trying"]
               /\ callResp' = IF final THEN [callResp EXCEPT ![c] = Some(SendResponse(r, o))]
                              ELSE callResp
    /\ UNCHANGED behaviour
    /\ UNCHANGED <<ctorVars, asideVars, cancelVars, buildVars, rtVars, callVars, streamVars, poolVars, closeVars, obsVars, walkVars>>

ReplicaList(n) == [i \in 1..n |-> ReplicaAddr(i)]

\* No client stream: the pool alone, with one deployment of 1..MaxReplicas
\* replicas, each answering, failing at the transport or reporting an error.
InitPool ==
    /\ graph_representation = LinearGraph
    /\ executor_addresses \in
          {<< [name |-> "a", addresses |-> AddrList(ReplicaList(n))] >> : n \in 1..MaxReplicas}
    /\ retries \in 0..MaxRetries
    /\ prefetch = 0
    /\ InitAside
    /\ api = "stream_docs"
    /\ docs = <<>>
    /\ request_size = 1
    /\ return_results = FALSE
    /\ results_in_order = FALSE
    /\ InitPlainCall
    /\ InitBuilt
    /\ InitRuntimeIdle
    /\ InitGateway
    /\ behaviour \in [Range(connections) -> {"ok", "fail", "error"}]
    /\ InitSends
    /\ InitWalk

NextPool ==
    \/ \E c \in 1..MaxCalls : SendCall(c)
    \/ \E c \in 1..MaxCalls : SendAttempt(c)

SpecPool == InitPool /\ [][NextPool]_vars

\* --------------------------------- request handler: the walk of the topology
ForkGraph ==
    << [node |-> START, outs |-> <<"a", "b">>],
       [node |-> "a", outs |-> <<END>>],
       [node |-> "b", outs |-> <<END>>] >>

ForkGraphBA ==
    << [node |-> START, outs |-> <<"b", "a">>],
       [node |-> "b", outs |-> <<END>>],
       [node |-> "a", outs |-> <<END>>] >>

DiamondGraph ==
    << [node |-> START, outs |-> <<"a", "b">>],
       [node |-> "a", outs |-> <<"c">>],
       [node |-> "b", outs |-> <<"c">>],
       [node |-> "c", outs |-> <<END>>] >>

ChainForkGraph ==
    << [node |-> START, outs |-> <<"a", "b">>],
       [node |-> "a", outs |-> <<"c">>],
       [node |-> "c", outs |-> <<END>>],
       [node |-> "b", outs |-> <<END>>] >>

WalkGraphs ==
    {LinearGraph, FloatingGraph, ForkGraph, ForkGraphBA, DiamondGraph, ChainForkGraph}

ExecNodes(g) == GraphNodes(g) \ {START, END}

Preds(g, n) == {m \in GraphNodes(g) : n \in GraphSucc(g, m)}

Ancestors(g, n) == {m \in ExecNodes(g) : n \in Descendants(g, m)}

SetMax(S) == CHOOSE x \in S : \A y \in S : y <= x

\* Topological rank: the length of the longest path from the start node.
RECURSIVE NodeRank(_, _)
NodeRank(g, n) ==
    IF n = START \/ Preds(g, n) = {} THEN 0
    ELSE 1 + SetMax({NodeRank(g, p) : p \in Preds(g, n)})

MaxRank(g) == SetMax({NodeRank(g, n) : n \in ExecNodes(g)})

\* The place of a node among the keys of graph_representation.
InsertionIndex(g, n) == CHOOSE i \in 1..Len(g) : g[i].node = n

\* A node downstream of an error is skipped: one of its predecessors failed
\* or was skipped itself.
NodeBlocked_Never(n) == FALSE
NodeBlocked(n) ==
    \E p \in Preds(graph_representation, n) \ {START} : nodeState[p] \in {"error", "skipped"}

Settled(n) ==
    IF n \in FloatingNodes(graph_representation)
    THEN nodeState[n] # "pending"
    ELSE nodeState[n] \in {"ok", "error", "skipped"}

\* The errors collected on the paths to the end node.
ErrorNodes ==
    {n \in ExecNodes(graph_representation) \ FloatingNodes(graph_representation) :
        nodeState[n] = "error"}

\* The first error: lowest rank, then earliest inserted.
FirstError ==
    LET g == graph_representation
        key(n) == NodeRank(g, n) * (Len(g) + 1) + InsertionIndex(g, n)
    IN CHOOSE n \in ErrorNodes : \A m \in ErrorNodes : key(n) <= key(m)

NodeException(n) == [BoomException EXCEPT !.executor = n]

WalkResponse ==
    IF ErrorNodes = {}
    THEN [code |-> "OK", exception |-> NoException]
    ELSE [code |-> "ERROR", exception |-> NodeException(FirstError)]

\* A request enters the graph at the start node.
WalkStart ==
    /\ walkLayer = 0
    /\ walkLayer' = 1
    /\ UNCHANGED <<nodeState, walkResp>>
    /\ UNCHANGED <<ctorVars, asideVars, cancelVars, buildVars, rtVars, callVars, streamVars, poolVars, closeVars, obsVars, sendVars>>

\* A node of the current layer is sent the request.
DispatchNode(n) ==
    /\ walkLayer = NodeRank(graph_representation, n)
    /\ nodeState[n] = "pending"
    /\ ~NodeBlocked(n)
    /\ nodeState' = [nodeState EXCEPT ![n] = "running"]
    /\ UNCHANGED <<walkLayer, walkResp>>
    /\ UNCHANGED <<ctorVars, asideVars, cancelVars, buildVars, rtVars, callVars, streamVars, poolVars, closeVars, obsVars, sendVars>>

\* A node of the current layer is skipped.
SkipNode(n) ==
    /\ walkLayer = NodeRank(graph_representation, n)
    /\ nodeState[n] = "pending"
    /\ NodeBlocked(n)
    /\ nodeState' = [nodeState EXCEPT ![n] = "skipped"]
    /\ UNCHANGED <<walkLayer, walkResp>>
    /\ UNCHANGED <<ctorVars, asideVars, cancelVars, buildVars, rtVars, callVars, streamVars, poolVars, closeVars, obsVars, sendVars>>

\* The deployment of node n answers with status OK or ERROR.
CompleteNode(n, o) ==
    /\ nodeState[n] = "running"
    /\ nodeState' = [nodeState EXCEPT ![n] = o]
    /\ UNCHANGED <<walkLayer, walkResp>>
    /\ UNCHANGED <<ctorVars, asideVars, cancelVars, buildVars, rtVars, callVars, streamVars, poolVars, closeVars, obsVars, sendVars>>

\* Every node of the layer has been awaited (a floating node only
\* dispatched): the walk moves to the next layer.
AdvanceLayer ==
    /\ walkLayer \in 1..MaxRank(graph_representation)
    /\ \A n \in ExecNodes(graph_representation) :
          NodeRank(graph_representation, n) = walkLayer => Settled(n)
    /\ walkLayer' = walkLayer + 1
    /\ UNCHANGED <<nodeState, walkResp>>
    /\ UNCHANGED <<ctorVars, asideVars, cancelVars, buildVars, rtVars, callVars, streamVars, poolVars, closeVars, obsVars, sendVars>>

\* The end node is reached: the response is the reduction plus the first error.
WalkFinish ==
    /\ walkLayer = MaxRank(graph_representation) + 1
    /\ walkResp = None
    /\ walkResp' = Some(WalkResponse)
    /\ UNCHANGED <<nodeState, walkLayer>>
    /\ UNCHANGED <<ctorVars, asideVars, cancelVars, buildVars, rtVars, callVars, streamVars, poolVars, closeVars, obsVars, sendVars>>

RECURSIVE NodeAddresses(_, _)
NodeAddresses(g, i) ==
    IF i > Len(g) THEN <<>>
    ELSE (IF g[i].node = START THEN <<>>
          ELSE << [name |-> g[i].node, addresses |-> AddrList(<<R1>>)] >>)
         \o NodeAddresses(g, i + 1)

\* One request and its walk, over each of the graphs, one replica per node.
InitWalkSpec ==
    /\ graph_representation \in WalkGraphs
    /\ executor_addresses = NodeAddresses(graph_representation, 1)
    /\ retries = 0
    /\ prefetch = 0
    /\ InitAside
    /\ api = "stream_docs"
    /\ docs = <<>>
    /\ request_size = 1
    /\ return_results = FALSE
    /\ results_in_order = FALSE
    /\ InitPlainCall
    /\ InitBuilt
    /\ InitRuntimeIdle
    /\ InitGateway
    /\ behaviour = [c \in Range(connections) |-> "ok"]
    /\ InitSends
    /\ InitWalk

NextWalk ==
    \/ WalkStart
    \/ \E n \in ExecNodes(graph_representation) : DispatchNode(n)
    \/ \E n \in ExecNodes(graph_representation) : SkipNode(n)
    \/ \E n \in ExecNodes(graph_representation), o \in {"ok", "error"} : CompleteNode(n, o)
    \/ AdvanceLayer
    \/ WalkFinish

SpecWalk == InitWalkSpec /\ [][NextWalk]_vars

\* ------------------------------------------------------------ construction
\* GatewayStreamer(...) step by step, on graphs with and without a cycle and
\* on address books that give a deployment a list of addresses or one str.
CycleGraph ==
    << [node |-> START, outs |-> <<"a">>],
       [node |-> "a", outs |-> <<"b">>],
       [node |-> "b", outs |-> <<"a", END>>] >>

SelfLoopGraph ==
    << [node |-> START, outs |-> <<"a">>],
       [node |-> "a", outs |-> <<"a", END>>] >>

CtorGraphs == {LinearGraph, FloatingGraph, CycleGraph, SelfLoopGraph}

HasCycle(g) == \E n \in GraphNodes(g) : n \in Descendants(g, n)

\* TopologyGraph(...) raises on a graph it cannot walk.
GraphRejected(g) == HasCycle(g)

\* The deployments of a graph, in the order of its dict.
DeploymentNames(g) == [i \in 1..(Len(g) - 1) |-> g[i + 1].node]

AddressChoices ==
    {AddrList(ReplicaList(n)) : n \in 1..MaxReplicas} \cup {AddrStr(ReplicaAddr(1))}

AddressBooks(g) ==
    LET names == DeploymentNames(g)
    IN {[i \in 1..Len(names) |-> [name |-> names[i], addresses |-> f[i]]] :
          f \in [1..Len(names) -> AddressChoices]}

\* The next statement of __init__: it raises, or it completes and, for the
\* connection pool, leaves the pool with its connections.
CtorStep ==
    /\ ctorPos < Len(CtorSteps)
    /\ ~ctorFailed
    /\ LET s == CtorSteps[ctorPos + 1]
           raises == s = "topology_graph" /\ GraphRejected(graph_representation)
       IN /\ ctorFailed' = raises
          /\ ctorPos' = IF raises THEN ctorPos ELSE ctorPos + 1
          /\ connections' = IF s = "connection_pool"
                             THEN CreateConnectionPool(executor_addresses)
                             ELSE connections
    /\ chanCloses' = [c \in Range(connections') |-> 0]
    /\ UNCHANGED <<ctorTries, poolClosed, toClose>>
    /\ UNCHANGED <<ctorVars, asideVars, cancelVars, rtVars, sendVars, walkVars, callVars, streamVars, closeVars, obsVars>>

\* The caller constructs again with the same arguments: a new object, with
\* a pool of its own.
CtorRetry ==
    /\ ctorFailed
    /\ ctorTries < MaxCtorTries
    /\ ctorTries' = ctorTries + 1
    /\ ctorFailed' = FALSE
    /\ ctorPos' = 0
    /\ connections' = <<>>
    /\ chanCloses' = [c \in {} |-> 0]
    /\ UNCHANGED <<poolClosed, toClose>>
    /\ UNCHANGED <<ctorVars, asideVars, cancelVars, rtVars, sendVars, walkVars, callVars, streamVars, closeVars, obsVars>>

InitCtor ==
    /\ graph_representation \in CtorGraphs
    /\ executor_addresses \in AddressBooks(graph_representation)
    /\ retries = 0
    /\ prefetch = 0
    /\ InitAside
    /\ api = "stream_docs"
    /\ docs = DocsOfLen(1)
    /\ request_size = 1
    /\ return_results = FALSE
    /\ results_in_order = FALSE
    /\ InitPlainCall
    /\ InitRuntimeIdle
    /\ ctorPos = 0
    /\ ctorFailed = FALSE
    /\ ctorTries = 1
    /\ started = FALSE
    /\ pulled = 0
    /\ slot = [i \in 1..NumRequests |-> "PENDING"]
    /\ resp = [i \in 1..NumRequests |-> None]
    /\ delivered = <<>>
    /\ yielded = <<>>
    /\ floating = {}
    /\ connections = <<>>
    /\ poolClosed = FALSE
    /\ toClose = {}
    /\ chanCloses = [c \in {} |-> 0]
    /\ closePhase = "idle"
    /\ closeReturned = 0
    /\ floatAtClose = {}
    /\ rpcAfterClose = FALSE
    /\ lastRejected = "none"
    /\ streamStatus = "open"
    /\ behaviour = [c \in {} |-> "ok"]
    /\ InitSends
    /\ InitWalk

NextCtor ==
    \/ CtorStep
    \/ CtorRetry
    \/ StreamCall
    \/ Pull

SpecCtor == InitCtor /\ [][NextCtor]_vars

\* ----------------------------------------------------- AsyncNewLoopRuntime
\* One runtime after __init__: the handlers of HANDLED_SIGNALS are installed,
\* is_cancel is an asyncio event or a thread/process event handed in.
HANDLED_SIGNALS == {"SIGINT", "SIGTERM", "SIGSEGV"}

\* teardown(), statement by statement; tdPos counts the statements done.
TeardownSteps ==
    <<"teardown_instrumentation", "async_teardown", "loop_stop", "loop_close",
      "super_teardown", "telemetry_stop_event">>

TdDone(name) == \E i \in 1..tdPos : TeardownSteps[i] = name

\* The handlers live on the loop (or on the process) until the loop is closed.
HandlersInstalled == ~TdDone("loop_close")

\* A handled signal arrives and its handler runs: is_cancel.set().
Signal(sig) ==
    /\ HandlersInstalled
    /\ is_cancel' = TRUE
    /\ UNCHANGED <<eventKind, rfState, arfState, waitPc, cancelCalls, bodyCancelled, tdPos>>
    /\ UNCHANGED <<ctorVars, asideVars, cancelVars, buildVars, sendVars, walkVars, callVars, streamVars, poolVars, closeVars, obsVars>>

\* run_forever(): the loop runs _loop_body, which gathers async_run_forever
\* and _wait_for_cancel.
RunForeverCall ==
    /\ rfState = "idle"
    /\ tdPos = 0
    /\ rfState' = "running"
    /\ arfState' = "running"
    /\ waitPc' = IF eventKind = "asyncio" THEN "waiting" ELSE "check"
    /\ UNCHANGED <<eventKind, is_cancel, cancelCalls, bodyCancelled, tdPos>>
    /\ UNCHANGED <<ctorVars, asideVars, cancelVars, buildVars, sendVars, walkVars, callVars, streamVars, poolVars, closeVars, obsVars>>

\* async_run_forever ends by itself.
AsyncRunForeverFinish ==
    /\ rfState = "running"
    /\ arfState = "running"
    /\ arfState' = "finished"
    /\ UNCHANGED <<eventKind, is_cancel, rfState, waitPc, cancelCalls, bodyCancelled, tdPos>>
    /\ UNCHANGED <<ctorVars, asideVars, cancelVars, buildVars, sendVars, walkVars, callVars, streamVars, poolVars, closeVars, obsVars>>

\* What _wait_for_cancel tests before it goes on: is_cancel.wait() has
\* returned, or is_cancel.is_set() is true.
CancelSeen_Always == TRUE
CancelSeen == is_cancel

\* _wait_for_cancel on an asyncio event: `await self.is_cancel.wait()`.
WaitWake ==
    /\ rfState = "running"
    /\ waitPc = "waiting"
    /\ CancelSeen
    /\ waitPc' = "woken"
    /\ UNCHANGED <<eventKind, is_cancel, rfState, arfState, cancelCalls, bodyCancelled, tdPos>>
    /\ UNCHANGED <<ctorVars, asideVars, cancelVars, buildVars, sendVars, walkVars, callVars, streamVars, poolVars, closeVars, obsVars>>

\* _wait_for_cancel on a thread/process event: `while not is_set()`.
PollCheck ==
    /\ rfState = "running"
    /\ waitPc = "check"
    /\ waitPc' = IF CancelSeen THEN "woken" ELSE "sleeping"
    /\ UNCHANGED <<eventKind, is_cancel, rfState, arfState, cancelCalls, bodyCancelled, tdPos>>
    /\ UNCHANGED <<ctorVars, asideVars, cancelVars, buildVars, sendVars, walkVars, callVars, streamVars, poolVars, closeVars, obsVars>>

\* `await asyncio.sleep(0.1)` is over.
PollSleepEnd ==
    /\ rfState = "running"
    /\ waitPc = "sleeping"
    /\ waitPc' = "check"
    /\ UNCHANGED <<eventKind, is_cancel, rfState, arfState, cancelCalls, bodyCancelled, tdPos>>
    /\ UNCHANGED <<ctorVars, asideVars, cancelVars, buildVars, sendVars, walkVars, callVars, streamVars, poolVars, closeVars, obsVars>>

\* `await self.async_cancel()`, the last statement of _wait_for_cancel.
AsyncCancel ==
    /\ rfState = "running"
    /\ waitPc = "woken"
    /\ cancelCalls' = cancelCalls + 1
    /\ waitPc' = "done"
    /\ UNCHANGED <<eventKind, is_cancel, rfState, arfState, bodyCancelled, tdPos>>
    /\ UNCHANGED <<ctorVars, asideVars, cancelVars, buildVars, sendVars, walkVars, callVars, streamVars, poolVars, closeVars, obsVars>>

\* asyncio.gather is done when both of its awaitables are.
GatherDone_Any == arfState = "finished" \/ waitPc = "done"
GatherDone == arfState = "finished" /\ waitPc = "done"

\* _loop_body returns after the gather, and run_forever with it.
LoopBodyReturn ==
    /\ rfState = "running"
    /\ GatherDone
    /\ rfState' = "returned"
    /\ UNCHANGED <<eventKind, is_cancel, arfState, waitPc, cancelCalls, bodyCancelled, tdPos>>
    /\ UNCHANGED <<ctorVars, asideVars, cancelVars, buildVars, sendVars, walkVars, callVars, streamVars, poolVars, closeVars, obsVars>>

\* The gather ends in asyncio.CancelledError (the loop body was cancelled):
\* _loop_body catches it, logs a warning and returns; what was still pending
\* of the two awaitables is cancelled.
LoopBodyCancelled ==
    /\ rfState = "running"
    /\ ~GatherDone
    /\ rfState' = "returned"
    /\ bodyCancelled' = TRUE
    /\ arfState' = IF arfState = "running" THEN "cancelled" ELSE arfState
    /\ waitPc' = IF waitPc # "done" THEN "cancelled" ELSE waitPc
    /\ UNCHANGED <<eventKind, is_cancel, cancelCalls, tdPos>>
    /\ UNCHANGED <<ctorVars, asideVars, cancelVars, buildVars, sendVars, walkVars, callVars, streamVars, poolVars, closeVars, obsVars>>

\* The next statement of teardown().
TeardownStep ==
    /\ rfState \in {"idle", "returned"}
    /\ tdPos < Len(TeardownSteps)
    /\ tdPos' = tdPos + 1
    /\ UNCHANGED <<eventKind, is_cancel, rfState, arfState, waitPc, cancelCalls, bodyCancelled>>
    /\ UNCHANGED <<ctorVars, asideVars, cancelVars, buildVars, sendVars, walkVars, callVars, streamVars, poolVars, closeVars, obsVars>>

InitRuntime ==
    /\ graph_representation = LinearGraph
    /\ executor_addresses = AddressesFor(graph_representation)
    /\ retries = 0
    /\ prefetch = 0
    /\ InitAside
    /\ api = "stream_docs"
    /\ docs = <<>>
    /\ request_size = 1
    /\ return_results = FALSE
    /\ results_in_order = FALSE
    /\ InitPlainCall
    /\ InitBuilt
    /\ InitGateway
    /\ behaviour = [c \in Range(connections) |-> "ok"]
    /\ InitSends
    /\ InitWalk
    /\ eventKind \in {"asyncio", "threading"}
    /\ is_cancel = FALSE
    /\ rfState = "idle"
    /\ arfState = "idle"
    /\ waitPc = "idle"
    /\ cancelCalls = 0
    /\ bodyCancelled = FALSE
    /\ tdPos = 0

NextRuntime ==
    \/ \E sig \in HANDLED_SIGNALS : Signal(sig)
    \/ RunForeverCall
    \/ AsyncRunForeverFinish
    \/ WaitWake
    \/ PollCheck
    \/ PollSleepEnd
    \/ AsyncCancel
    \/ LoopBodyReturn
    \/ LoopBodyCancelled
    \/ TeardownStep

SpecRuntime == InitRuntime /\ [][NextRuntime]_vars

\* The running loop steps every coroutine that can go on; async_cancel makes
\* async_run_forever end.
RuntimeFairness ==
    /\ WF_vars(WaitWake)
    /\ WF_vars(PollCheck)
    /\ WF_vars(PollSleepEnd)
    /\ WF_vars(AsyncCancel)
    /\ WF_vars(LoopBodyReturn)
    /\ WF_vars(cancelCalls > 0 /\ AsyncRunForeverFinish)

SpecRuntimeLive == SpecRuntime /\ RuntimeFairness

\* ------------------------------------------------------------ get_streamer
\* A JSON text, kept as its tree: string, number, array, or object with its
\* members as <<key, value>> in order.
JStr(str) == [t |-> "string", s |-> str, n |-> 0, items |-> <<>>]
JNum(num) == [t |-> "number", s |-> <<>>, n |-> num, items |-> <<>>]
JArr(elems) == [t |-> "array", s |-> <<>>, n |-> 0, items |-> elems]
JObj(members) == [t |-> "object", s |-> <<>>, n |-> 0, items |-> members]

\* json.dumps of the keyword arguments: a dict becomes an object, a list an
\* array, a str a string, an int a number.
DumpStrList(l) == JArr([i \in 1..Len(l) |-> JStr(l[i])])

DumpAddresses(a) == IF a.kind = "list" THEN DumpStrList(a.items) ELSE JStr(a.items[1])

DumpGraph(g) == JObj([i \in 1..Len(g) |-> <<g[i].node, DumpStrList(g[i].outs)>>])

DumpAddressBook(b) == JObj([i \in 1..Len(b) |-> <<b[i].name, DumpAddresses(b[i].addresses)>>])

JsonDumps(kwargs) ==
    JObj(<< <<"graph_representation", DumpGraph(kwargs.graph_representation)>>,
            <<"executor_addresses", DumpAddressBook(kwargs.executor_addresses)>>,
            <<"retries", JNum(kwargs.retries)>>,
            <<"prefetch", JNum(kwargs.prefetch)>> >>)

\* json.loads: an object becomes a dict, an array a list, a string a str, a
\* number an int.
LoadStrList(j) == [i \in 1..Len(j.items) |-> j.items[i].s]

LoadAddresses(j) == IF j.t = "array" THEN AddrList(LoadStrList(j)) ELSE AddrStr(j.s)

LoadGraph(j) ==
    [i \in 1..Len(j.items) |-> [node |-> j.items[i][1], outs |-> LoadStrList(j.items[i][2])]]

LoadAddressBook(j) ==
    [i \in 1..Len(j.items) |->
        [name |-> j.items[i][1], addresses |-> LoadAddresses(j.items[i][2])]]

Member(j, key) == j.items[CHOOSE i \in 1..Len(j.items) : j.items[i][1] = key][2]

JsonLoads(j) ==
    [graph_representation |-> LoadGraph(Member(j, "graph_representation")),
     executor_addresses |-> LoadAddressBook(Member(j, "executor_addresses")),
     retries |-> Member(j, "retries").n,
     prefetch |-> Member(j, "prefetch").n]

\* The keyword arguments a streamer may be constructed with.
KwargsBooks(g) ==
    LET names == DeploymentNames(g)
    IN {[i \in 1..Len(names) |-> [name |-> names[i], addresses |-> f[i]]] :
          f \in [1..Len(names) -> {AddrList(<<R1, R2>>), AddrStr(R1)}]}

KwargsChoices ==
    UNION {[graph_representation : {g}, executor_addresses : KwargsBooks(g),
            retries : {0, MaxRetries}, prefetch : {0}] :
              g \in {LinearGraph, FloatingGraph}}

\* _set_env_streamer_args(**kwargs)
SetEnvStreamerArgs(kwargs) ==
    /\ environ' = [environ EXCEPT !["JINA_STREAMER_ARGS"] = Some(JsonDumps(kwargs))]
    /\ UNCHANGED <<getResult, coreVars, warmVars, postVars, readyVars>>

\* The process was started with the serialized arguments in the variable
\* `name` of its environment.
EnvExport(name, kwargs) ==
    /\ environ[name] = None
    /\ environ' = [environ EXCEPT ![name] = Some(JsonDumps(kwargs))]
    /\ UNCHANGED <<getResult, coreVars, warmVars, postVars, readyVars>>

\* The variable get_streamer looks up in os.environ.
StreamerArgsName_Gateway == "GATEWAY_STREAMER_ARGS"
StreamerArgsName == "JINA_STREAMER_ARGS"

\* get_streamer(): GatewayStreamer(**json.loads(...)), or OSError.
GetStreamer ==
    /\ getResult' =
          IF environ[StreamerArgsName] # None
          THEN Some([error |-> "", args |-> Some(JsonLoads(environ[StreamerArgsName][1]))])
          ELSE Some([error |-> "OSError", args |-> None])
    /\ UNCHANGED <<environ, coreVars, warmVars, postVars, readyVars>>

InitEnv ==
    /\ graph_representation = LinearGraph
    /\ executor_addresses = AddressesFor(graph_representation)
    /\ retries = 0
    /\ prefetch = 0
    /\ api = "stream_docs"
    /\ docs = <<>>
    /\ request_size = 1
    /\ return_results = FALSE
    /\ results_in_order = FALSE
    /\ InitPlainCall
    /\ InitBuilt
    /\ InitRuntimeIdle
    /\ InitGateway
    /\ behaviour = [c \in Range(connections) |-> "ok"]
    /\ InitSends
    /\ InitWalk
    /\ InitEnvIdle
    /\ InitWarmIdle
    /\ InitPostIdle
    /\ InitReadyIdle

NextEnv ==
    \/ \E k \in KwargsChoices : SetEnvStreamerArgs(k)
    \/ \E name \in EnvNames, k \in KwargsChoices : EnvExport(name, k)
    \/ GetStreamer

SpecEnv == InitEnv /\ [][NextEnv]_vars

\* ------------------------------------------------------------------ warmup
\* The tail of AsyncNewLoopRuntime.__init__, statement by statement;
\* rtCtorPos counts the statements done.
RtCtorSteps ==
    <<"async_setup", "send_telemetry_event", "warmup_task_none", "warmup_stop_event">>

RtConstructed == rtCtorPos = Len(RtCtorSteps)

\* The event loop runs only inside run_until_complete: the statements after
\* async_setup() run with the loop idle, so no task advances between them.
LoopRuns == RtConstructed

\* warmup(): `deployments = {key for key in self._executor_addresses.keys()}`
DeploymentKeys == {executor_addresses[i].name : i \in 1..Len(executor_addresses)}

\* warmup() creates one task of pool.warmup per deployment and gathers them.
WarmupStarted ==
    /\ wuPc' = "gathering"
    /\ wuTask' = [d \in DeploymentKeys |-> "running"]

\* The next statement of __init__: async_setup() of a subclass may start the
\* warmup and store its task; then warmup_task is set to None and
\* warmup_stop_event to a new event.
RtCtorStep ==
    /\ rtCtorPos < Len(RtCtorSteps)
    /\ rtCtorPos' = rtCtorPos + 1
    /\ LET st == RtCtorSteps[rtCtorPos + 1]
       IN /\ IF st = "async_setup" /\ setupStartsWarmup
             THEN WarmupStarted
             ELSE UNCHANGED <<wuPc, wuTask>>
          /\ warmup_task' = CASE st = "async_setup" /\ setupStartsWarmup -> Some("warmup")
                               [] st = "warmup_task_none" -> None
                               [] OTHER -> warmup_task
          /\ stop_event' = IF st = "warmup_stop_event" THEN FALSE ELSE stop_event
    /\ UNCHANGED <<setupStartsWarmup, coreVars, envVars, postVars, readyVars>>

\* A subclass starts the warmup once the runtime is constructed and stores
\* its task in warmup_task.
WarmupTaskAssigned ==
    /\ RtConstructed
    /\ wuPc = "none"
    /\ warmup_task' = Some("warmup")
    /\ WarmupStarted
    /\ UNCHANGED <<rtCtorPos, setupStartsWarmup, stop_event, coreVars, envVars, postVars, readyVars>>

\* The owner of the stop event sets it.
StopEventSet ==
    /\ LoopRuns
    /\ wuPc = "gathering"
    /\ ~stop_event
    /\ stop_event' = TRUE
    /\ UNCHANGED <<rtCtorPos, setupStartsWarmup, warmup_task, wuPc, wuTask>>
    /\ UNCHANGED <<coreVars, envVars, postVars, readyVars>>

\* The pool's warmup of deployment d ends: it succeeded, or it raised.
DeploymentWarmupEnd(d, how) ==
    /\ LoopRuns
    /\ wuPc = "gathering"
    /\ wuTask[d] = "running"
    /\ wuTask' = [wuTask EXCEPT ![d] = how]
    /\ UNCHANGED <<rtCtorPos, setupStartsWarmup, warmup_task, stop_event, wuPc>>
    /\ UNCHANGED <<coreVars, envVars, postVars, readyVars>>

\* The pool's warmup of deployment d sees the stop event and gives up.
DeploymentWarmupStopped(d) ==
    /\ LoopRuns
    /\ wuPc = "gathering"
    /\ wuTask[d] = "running"
    /\ stop_event
    /\ wuTask' = [wuTask EXCEPT ![d] = "stopped"]
    /\ UNCHANGED <<rtCtorPos, setupStartsWarmup, warmup_task, stop_event, wuPc>>
    /\ UNCHANGED <<coreVars, envVars, postVars, readyVars>>

\* asyncio.gather(*tasks, return_exceptions=True): done when every task is;
\* without return_exceptions the first exception would end it.
GatherReturnExceptions_Off == FALSE
GatherReturnExceptions == TRUE

WarmupGatherEnds ==
    \/ \A d \in DOMAIN wuTask : wuTask[d] # "running"
    \/ ~GatherReturnExceptions /\ \E d \in DOMAIN wuTask : wuTask[d] = "failed"

\* warmup() returns: after the gather, or from `except Exception`.
WarmupReturn ==
    /\ LoopRuns
    /\ wuPc = "gathering"
    /\ WarmupGatherEnds
    /\ wuPc' = "returned"
    /\ UNCHANGED <<rtCtorPos, setupStartsWarmup, warmup_task, stop_event, wuTask>>
    /\ UNCHANGED <<coreVars, envVars, postVars, readyVars>>

\* The warmup task is cancelled while it gathers: `except
\* asyncio.CancelledError` cancels every task and raises again, and
\* `except Exception` does not catch it.
CancelWarmup ==
    /\ wuPc' = "cancelled"
    /\ wuTask' = [d \in DOMAIN wuTask |->
                    IF wuTask[d] = "running" THEN "cancelled" ELSE wuTask[d]]

WarmupCancelled ==
    /\ LoopRuns
    /\ wuPc = "gathering"
    /\ CancelWarmup
    /\ UNCHANGED <<rtCtorPos, setupStartsWarmup, warmup_task, stop_event>>
    /\ UNCHANGED <<coreVars, envVars, postVars, readyVars>>

\* cancel_warmup_task(): with a task that is not done, set the stop event
\* and cancel the task; otherwise nothing.
CancelWarmupTask ==
    /\ RtConstructed
    /\ IF warmup_task # None /\ wuPc = "gathering"
       THEN stop_event' = TRUE /\ CancelWarmup
       ELSE UNCHANGED <<stop_event, wuPc, wuTask>>
    /\ UNCHANGED <<rtCtorPos, setupStartsWarmup, warmup_task>>
    /\ UNCHANGED <<coreVars, envVars, postVars, readyVars>>

InitWarm ==
    /\ graph_representation \in {LinearGraph, FloatingGraph}
    /\ executor_addresses = AddressesFor(graph_representation)
    /\ retries = 0
    /\ prefetch = 0
    /\ api = "stream_docs"
    /\ docs = <<>>
    /\ request_size = 1
    /\ return_results = FALSE
    /\ results_in_order = FALSE
    /\ InitPlainCall
    /\ InitBuilt
    /\ InitRuntimeIdle
    /\ InitGateway
    /\ behaviour = [c \in Range(connections) |-> "ok"]
    /\ InitSends
    /\ InitWalk
    /\ InitEnvIdle
    /\ InitPostIdle
    /\ InitReadyIdle
    /\ rtCtorPos = 0
    /\ setupStartsWarmup \in BOOLEAN
    /\ warmup_task = None
    /\ stop_event = FALSE
    /\ wuPc = "none"
    /\ wuTask = <<>>

NextWarm ==
    \/ RtCtorStep
    \/ WarmupTaskAssigned
    \/ StopEventSet
    \/ \E d \in DOMAIN wuTask, how \in {"ok", "failed"} : DeploymentWarmupEnd(d, how)
    \/ \E d \in DOMAIN wuTask : DeploymentWarmupStopped(d)
    \/ WarmupReturn
    \/ WarmupCancelled
    \/ CancelWarmupTask

SpecWarm == InitWarm /\ [][NextWarm]_vars

\* -------------------------------------------------- _ExecutorStreamer.post
\* post(inputs = docs, request_size, on = exec_endpoint, parameters) of the
\* _ExecutorStreamer of the first deployment.
ExecutorName == executor_addresses[1].name

\* One request per slice of inputs.batch; the header fields are assigned
\* whatever their value.
PostReqs ==
    LET batches == Batch(docs, request_size)
    IN  [j \in DOMAIN batches |->
            [docs |-> batches[j],
             exec_endpoint |-> exec_endpoint,
             target_executor |-> Some(ExecutorName),
             parameters |-> parameters]]

\* What an executor answers to a request: its documents, none, or each twice.
ReplyKinds == {"echo", "none", "twice"}

ExecutorReply(req, kind) ==
    CASE kind = "echo" -> req.docs
      [] kind = "none" -> <<>>
      [] OTHER -> req.docs \o req.docs

\* The call up to `await asyncio.gather(*tasks)`: the batches are cut, one
\* send_requests_once per request is created, all of them are in flight.
PostCall ==
    /\ postPc = "idle"
    /\ IF BatchRaises(request_size)
       THEN postPc' = "raised" /\ UNCHANGED postResp
       ELSE postPc' = "gathering" /\ postResp' = [j \in DOMAIN PostReqs |-> None]
    /\ UNCHANGED <<postOrder, postDocs, coreVars, envVars, warmVars, readyVars>>

\* The send of request j completes with a response.
SendRequestsOnceDone(j, kind) ==
    /\ postPc = "gathering"
    /\ postResp[j] = None
    /\ postResp' = [postResp EXCEPT ![j] = Some(ExecutorReply(PostReqs[j], kind))]
    /\ postOrder' = Append(postOrder, j)
    /\ UNCHANGED <<postPc, postDocs, coreVars, envVars, warmVars, readyVars>>

\* The send of request j raises: gather passes the first exception on, and
\* post raises it.
SendRequestsOnceRaises(j) ==
    /\ postPc = "gathering"
    /\ postResp[j] = None
    /\ postPc' = "raised"
    /\ UNCHANGED <<postOrder, postResp, postDocs, coreVars, envVars, warmVars, readyVars>>

\* asyncio.gather returns the results in the order of its arguments.
GatherResults_AsCompleted(order, results) == [k \in DOMAIN order |-> results[order[k]][1]]
GatherResults(order, results) == [j \in DOMAIN results |-> results[j][1]]

\* gather is done when every send is; then the documents of the results are
\* appended one result after the other, and returned.
PostReturn ==
    /\ postPc = "gathering"
    /\ \A j \in DOMAIN postResp : postResp[j] # None
    /\ postPc' = "returned"
    /\ postDocs' = Some(Flatten(GatherResults(postOrder, postResp)))
    /\ UNCHANGED <<postOrder, postResp, coreVars, envVars, warmVars, readyVars>>

InitPost ==
    /\ graph_representation = LinearGraph
    /\ executor_addresses = AddressesFor(graph_representation)
    /\ retries = 0
    /\ prefetch = 0
    /\ api = "post"
    /\ docs \in {DocsOfLen(n) : n \in 0..MaxBatchDocs}
    /\ request_size \in 0..MaxRequestSize
    /\ return_results = FALSE
    /\ results_in_order = FALSE
    /\ exec_endpoint \in {None, Some("/foo")}
    /\ target_executor = None
    /\ parameters \in {None, Some({<<"k", "v">>})}
    /\ hardShutdown = FALSE
    /\ InitBuilt
    /\ InitRuntimeIdle
    /\ InitGateway
    /\ behaviour = [c \in Range(connections) |-> "ok"]
    /\ InitSends
    /\ InitWalk
    /\ InitEnvIdle
    /\ InitWarmIdle
    /\ InitReadyIdle
    /\ InitPostIdle

NextPost ==
    \/ PostCall
    \/ \E j \in DOMAIN postResp, kind \in ReplyKinds : SendRequestsOnceDone(j, kind)
    \/ \E j \in DOMAIN postResp : SendRequestsOnceRaises(j)
    \/ PostReturn

SpecPost == InitPost /\ [][NextPost]_vars

\* --------------------------------------------- wait_for_ready_or_shutdown
\* What send_health_check_sync does: a status, or grpc.RpcError.
ProbeOutcomes == {"SERVING", "NOT_SERVING", "RpcError"}

\* is_ready: the status compared with SERVING; RpcError is caught.
IsReady(probe) == IF probe = "RpcError" THEN FALSE ELSE probe = "SERVING"

\* `timeout_ns = 1000000000 * timeout if timeout else None`, in sleeps:
\* None and 0 are both falsy.
TruthyNum(t) == t # None /\ t[1] # 0

TimeoutNs(t) == IF TruthyNum(t) THEN Some(t[1]) ELSE None

\* The call up to the loop: with health_check the answer is one is_ready.
WaitCall(probe) ==
    /\ wfPc = "idle"
    /\ IF health_check
       THEN wfPc' = "returned" /\ wfResult' = Some(IsReady(probe))
       ELSE wfPc' = "test" /\ UNCHANGED wfResult
    /\ UNCHANGED <<wTimeout, health_check, elapsed, readyEvent>>
    /\ UNCHANGED <<coreVars, envVars, warmVars, postVars>>

\* `while timeout_ns is None or time.time_ns() - now < timeout_ns`, and
\* `return False` after the loop.
LoopTest ==
    /\ wfPc = "test"
    /\ IF TimeoutNs(wTimeout) = None \/ elapsed < TimeoutNs(wTimeout)[1]
       THEN wfPc' = "body" /\ UNCHANGED wfResult
       ELSE wfPc' = "returned" /\ wfResult' = Some(FALSE)
    /\ UNCHANGED <<wTimeout, health_check, elapsed, readyEvent>>
    /\ UNCHANGED <<coreVars, envVars, warmVars, postVars>>

\* `if ready_or_shutdown_event.is_set() or cls.is_ready(...)`: `or` asks
\* is_ready only with the event unset; the health check may take time.
LoopBody(probe, dt) ==
    /\ wfPc = "body"
    /\ IF readyEvent
       THEN wfPc' = "returned" /\ wfResult' = Some(TRUE) /\ UNCHANGED elapsed
       ELSE /\ elapsed + dt <= MaxClock
            /\ elapsed' = elapsed + dt
            /\ IF IsReady(probe)
               THEN wfPc' = "returned" /\ wfResult' = Some(TRUE)
               ELSE wfPc' = "sleep" /\ UNCHANGED wfResult
    /\ UNCHANGED <<wTimeout, health_check, readyEvent>>
    /\ UNCHANGED <<coreVars, envVars, warmVars, postVars>>

\* time.sleep(0.1)
SleepEnd ==
    /\ wfPc = "sleep"
    /\ elapsed < MaxClock
    /\ elapsed' = elapsed + 1
    /\ wfPc' = "test"
    /\ UNCHANGED <<wTimeout, health_check, readyEvent, wfResult>>
    /\ UNCHANGED <<coreVars, envVars, warmVars, postVars>>

\* The runtime's process sets the ready-or-shutdown event.
ReadyEventSet ==
    /\ ~readyEvent
    /\ wfPc # "returned"
    /\ readyEvent' = TRUE
    /\ UNCHANGED <<wTimeout, health_check, elapsed, wfPc, wfResult>>
    /\ UNCHANGED <<coreVars, envVars, warmVars, postVars>>

InitReady ==
    /\ graph_representation = LinearGraph
    /\ executor_addresses = AddressesFor(graph_representation)
    /\ retries = 0
    /\ prefetch = 0
    /\ api = "stream_docs"
    /\ docs = <<>>
    /\ request_size = 1
    /\ return_results = FALSE
    /\ results_in_order = FALSE
    /\ InitPlainCall
    /\ InitBuilt
    /\ InitRuntimeIdle
    /\ InitGateway
    /\ behaviour = [c \in Range(connections) |-> "ok"]
    /\ InitSends
    /\ InitWalk
    /\ InitEnvIdle
    /\ InitWarmIdle
    /\ InitPostIdle
    /\ wTimeout \in {None} \cup {Some(t) : t \in 0..MaxTimeout}
    /\ health_check \in BOOLEAN
    /\ elapsed = 0
    /\ readyEvent = FALSE
    /\ wfPc = "idle"
    /\ wfResult = None

NextReady ==
    \/ \E probe \in ProbeOutcomes : WaitCall(probe)
    \/ LoopTest
    \/ \E probe \in ProbeOutcomes, dt \in 0..1 : LoopBody(probe, dt)
    \/ SleepEnd
    \/ ReadyEventSet

SpecReady == InitReady /\ [][NextReady]_vars

\* ------------------------------------------------------------------ claims
Done == {i \in 1..NumRequests : slot[i] = "DONE"}

\* C1: with prefetch = P > 0 the requests in flight (dispatched to the handler
\* and not yet delivered) never number more than P; a request is therefore
\* never pulled from the client iterator while all P slots are taken.
C1_PrefetchBound ==
    prefetch > 0 => Cardinality(InFlight) <= prefetch

\* All slots taken while the iterator still holds a request.
C1_Witness ==
    /\ prefetch > 0
    /\ Cardinality(InFlight) = prefetch
    /\ pulled < NumRequests

\* C2: with results_in_order the responses come out in the input order of the
\* requests, one per request, whatever the order in which the handler
\* invocations complete: the k-th response yielded is that of the k-th request.
C2_InputOrder ==
    results_in_order =>
        /\ Len(yielded) = Len(delivered)
        /\ Cardinality(Done) = Len(delivered)
        /\ \A k \in 1..Len(delivered) :
              /\ delivered[k] = k
              /\ yielded[k] = FacadeYield(resp[k][1])

\* The second request completed first and is held back behind the first.
C2_Witness ==
    /\ results_in_order
    /\ NumRequests >= 2
    /\ slot[1] = "IN_FLIGHT"
    /\ slot[2] = "READY"

\* C3: close() starts closing the pool only after wait_floating_requests_end()
\* has returned: while channels are being closed every floating task that was
\* registered when close() was called has completed, and close() has returned
\* only when the pool is closed, with every channel closed, as well.
C3_CloseAfterFloating ==
    /\ closePhase = "closing" => floatAtClose \cap floating = {}
    /\ \A c \in DOMAIN chanCloses :
          chanCloses[c] > 0 => (closePhase = "closing" \/ closeReturned > 0)
    /\ (closePhase = "idle" /\ closeReturned > 0) =>
          /\ poolClosed
          /\ connections = <<>>
          /\ floatAtClose \cap floating = {}

\* close() was called with floating tasks alive and has closed a channel.
C3_Witness ==
    /\ closePhase = "closing"
    /\ floatAtClose # {}
    /\ \E c \in DOMAIN chanCloses : chanCloses[c] > 0

\* C4: once close() has returned no RPC reaches a replica: every send made
\* afterwards, by a stream, a floating task, process_single_data or on the
\* pool directly, fails with PoolClosedError.
C4_NoRpcAfterClose ==
    ~rpcAfterClose

\* After close() a request of the stream was answered with PoolClosedError
\* and a direct send on the pool was refused.
C4_Witness ==
    /\ closeReturned > 0
    /\ lastRejected = "pool"
    /\ \E i \in 1..NumRequests :
          /\ resp[i] # None
          /\ resp[i][1].exception.name = "PoolClosedError"

\* C5: close() is idempotent: once the first call has returned, no step of a
\* later call changes the pool: it stays closed, no entry comes back and no
\* channel is closed a second time.
C5_CloseIdempotent ==
    [][closeReturned >= 1 => UNCHANGED <<connections, poolClosed, toClose, chanCloses>>]_vars

\* A second close() has returned and every channel was closed exactly once.
C5_Witness ==
    /\ closeReturned = 2
    /\ \A c \in DOMAIN chanCloses : chanCloses[c] = 1

\* C10: stream() yields one (payload, error) pair per response of the
\* pipeline, in the pipeline's order; the error is None exactly when the
\* response's status code is not ERROR, and otherwise carries the name, args,
\* stacks and executor of status.exception.
C10_StreamPairs ==
    api = "stream" =>
        /\ Len(yielded) = Len(delivered)
        /\ \A k \in 1..Len(delivered) :
              LET r == resp[delivered[k]][1]
              IN /\ Len(yielded[k]) = 2
                 /\ yielded[k][1] = (IF return_results THEN r ELSE r.docs)
                 /\ (yielded[k][2] = None) <=> (r.code # "ERROR")
                 /\ r.code = "ERROR" =>
                       yielded[k][2] = Some([name |-> r.exception.name,
                                             args |-> r.exception.args,
                                             stacks |-> r.exception.stacks,
                                             executor |-> r.exception.executor])

\* stream() has yielded a pair without an error and a pair with one.
C10_Witness ==
    /\ api = "stream"
    /\ \E k \in 1..Len(yielded) : yielded[k][2] = None
    /\ \E k \in 1..Len(yielded) : yielded[k][2] # None /\ yielded[k][2][1].name = "Boom"

\* ------------------------------------------------------- claims on the pool
ConfiguredReplicas == executor_addresses[1].addresses.items
AttemptAddrs(c) == [k \in 1..Len(attempts[c]) |-> attempts[c][k].replica.address]
OthersIdle(c) == \A d \in 1..MaxCalls : d # c => callState[d] = "idle"

\* C6: when every replica of the deployment fails at the transport, a request
\* makes at most retries + 1 send attempts, and then ends, without raising,
\* in a response with status ERROR that carries the transport error.
C6_RetryBound ==
    (\A r \in Range(Ring("a")) : behaviour[r] = "fail") =>
        \A c \in 1..MaxCalls :
            /\ Len(attempts[c]) <= retries + 1
            /\ Len(attempts[c]) = retries + 1 => callState[c] = "done"
            /\ callState[c] = "done" =>
                  /\ Len(attempts[c]) = retries + 1
                  /\ callResp[c][1].code = "ERROR"
                  /\ callResp[c][1].exception = TransportException

\* All replicas fail, retries >= 1, and a call has given up.
C6_Witness ==
    /\ \A r \in Range(Ring("a")) : behaviour[r] = "fail"
    /\ retries >= 1
    /\ \E c \in 1..MaxCalls : callState[c] = "done" /\ Len(attempts[c]) = retries + 1

\* C7: every retry goes to the replica the deployment's round-robin ring
\* names next: between two attempts of a request the ring has moved on by the
\* picks made in between, by exactly one replica when no other request is
\* sending. With retries = 2, replicas [r1, r2, r3], r1 and r2 failing and r3
\* answering, a request alone makes exactly the attempts r1, r2, r3 and ends OK.
C7_NextReplica ==
    \A c \in 1..MaxCalls :
        /\ \A k \in 1..(Len(attempts[c]) - 1) :
              LET a == attempts[c][k]
                  b == attempts[c][k + 1]
                  n == Len(Ring("a"))
              IN /\ b.tick > a.tick
                 /\ RingIndex("a", b.replica) =
                       ((RingIndex("a", a.replica) - 1 + (b.tick - a.tick)) % n) + 1
                 /\ OthersIdle(c) =>
                       RingIndex("a", b.replica) = (RingIndex("a", a.replica) % n) + 1
        /\ ( /\ retries = 2
             /\ ConfiguredReplicas = <<R1, R2, R3>>
             /\ \A r \in Range(Ring("a")) :
                   behaviour[r] = (IF r.address = R3 THEN "ok" ELSE "fail")
             /\ OthersIdle(c)
             /\ callState[c] = "done" )
           => /\ AttemptAddrs(c) = <<R1, R2, R3>>
              /\ callResp[c][1].code = "OK"

\* The scenario: r1 and r2 failed, r3 answered the third attempt.
C7_Witness ==
    /\ retries = 2
    /\ ConfiguredReplicas = <<R1, R2, R3>>
    /\ \E c \in 1..MaxCalls :
          /\ OthersIdle(c)
          /\ callState[c] = "done"
          /\ AttemptAddrs(c) = <<R1, R2, R3>>
          /\ callResp[c][1].code = "OK"

\* C8: a response in which the executor set status ERROR is not retried: it
\* is the call's last attempt whatever retries is (every earlier attempt was a
\* transport failure), and the executor's error is the call's response.
C8_ExecutorErrorFinal ==
    \A c \in 1..MaxCalls :
        /\ \A k \in 1..(Len(attempts[c]) - 1) : behaviour[attempts[c][k].replica] = "fail"
        /\ \A k \in 1..Len(attempts[c]) :
              behaviour[attempts[c][k].replica] = "error" =>
                  /\ k = Len(attempts[c])
                  /\ callState[c] = "done"
                  /\ callResp[c][1].code = "ERROR"
                  /\ callResp[c][1].exception = BoomException

\* With retries left, a call ended after the one attempt the executor
\* answered with its error.
C8_Witness ==
    /\ retries >= 1
    /\ \E c \in 1..MaxCalls :
          /\ callState[c] = "done"
          /\ Len(attempts[c]) = 1
          /\ behaviour[attempts[c][1].replica] = "error"
          /\ callResp[c][1].exception = BoomException

\* ------------------------------------------------------- claims on the walk
Dispatched(n) == nodeState[n] \in {"running", "ok", "error"}

\* C9: in one request's walk, no node downstream of a node that answered ERROR
\* is dispatched; a node is skipped only for an error upstream of it, so the
\* nodes of parallel paths are all dispatched; and the final response carries
\* the first error by topological rank, ties broken by insertion order.
C9_ErrorPropagation ==
    LET g == graph_representation
    IN /\ \A n \in ExecNodes(g) :
             /\ Dispatched(n) => \A m \in Ancestors(g, n) : nodeState[m] # "error"
             /\ nodeState[n] = "skipped" => \E m \in Ancestors(g, n) : nodeState[m] = "error"
       /\ walkResp # None =>
             /\ \A n \in ExecNodes(g) \ FloatingNodes(g) :
                   (\A m \in Ancestors(g, n) : nodeState[m] # "error") => nodeState[n] \in {"ok", "error"}
             /\ (walkResp[1].code = "OK") <=> (ErrorNodes = {})
             /\ walkResp[1].code = "ERROR" =>
                   \E e \in ErrorNodes :
                       /\ walkResp[1].exception = NodeException(e)
                       /\ \A m \in ErrorNodes \ {e} :
                             \/ NodeRank(g, e) < NodeRank(g, m)
                             \/ /\ NodeRank(g, e) = NodeRank(g, m)
                                /\ InsertionIndex(g, e) < InsertionIndex(g, m)

\* a failed, its downstream c was skipped, the parallel b was dispatched and
\* failed too, and the response carries the error of a.
C9_Witness ==
    /\ graph_representation = ChainForkGraph
    /\ walkResp # None
    /\ nodeState["a"] = "error"
    /\ nodeState["c"] = "skipped"
    /\ nodeState["b"] = "error"
    /\ walkResp[1].exception.executor = "a"

\* ------------------------------------------------------------- stream_docs
IsPrefix(a, b) == Len(a) <= Len(b) /\ a = SubSeq(b, 1, Len(a))

\* C11: over an echo topology, stream_docs with results_in_order and a
\* positive request_size yields document lists whose concatenation is docs
\* itself: always a prefix of docs while the stream runs, and the whole of
\* docs once the iteration has ended.
C11_RoundTrip ==
    (api = "stream_docs" /\ ~return_results /\ results_in_order /\ request_size >= 1)
    => /\ IsPrefix(Flatten(yielded), docs)
       /\ streamStatus = "returned" => Flatten(yielded) = docs

C11_Witness ==
    /\ api = "stream_docs" /\ ~return_results /\ results_in_order
    /\ Len(docs) = 3 /\ request_size = 2
    /\ streamStatus = "returned"
    /\ Len(yielded) = 2

\* C12: for a positive request_size the requests are the consecutive slices
\* of docs: ceil(|docs| / request_size) of them, each but the last of
\* exactly request_size documents, the last of 1..request_size, holding the
\* documents in their order; each carries exec_endpoint, target_executor and
\* parameters whenever the call gave them; the stream issues them all and
\* never more.
C12_Batches ==
    request_size >= 1 =>
        LET n == Len(docs)
            k == request_size
        IN /\ NumRequests = CeilDiv(n, k)
           /\ pulled <= CeilDiv(n, k)
           /\ streamStatus = "returned" => pulled = CeilDiv(n, k)
           /\ \A j \in 1..NumRequests :
                 LET r == Requests[j]
                 IN /\ j < NumRequests => Len(r.docs) = k
                    /\ j = NumRequests => Len(r.docs) \in 1..k
                    /\ \A i \in 1..Len(r.docs) : r.docs[i] = docs[(j - 1) * k + i]
                    /\ exec_endpoint # None => r.exec_endpoint = exec_endpoint[1]
                    /\ target_executor # None => r.target_executor = target_executor[1]
                    /\ parameters # None => r.parameters = parameters[1]

C12_Witness ==
    /\ Len(docs) = 3 /\ request_size = 2
    /\ exec_endpoint = Some("/foo")
    /\ target_executor = Some("a")
    /\ parameters = Some({<<"k", "v">>})
    /\ pulled = 2
    /\ Len(Requests[1].docs) = 2 /\ Len(Requests[2].docs) = 1

\* C13: a call with request_size = 0 has failed with ConfigError as soon as
\* it was made, and no request was built.
C13_ConfigErrorAtCall ==
    (started /\ request_size = 0) => (streamStatus = "ConfigError" /\ pulled = 0)

\* C14: with empty docs and a positive request_size there is no request to
\* issue, nothing is yielded, no slot is taken, no task is in flight or
\* floating, no error is raised, and the iteration can end at once.
C14_EmptyDocs ==
    (docs = <<>> /\ request_size >= 1)
    => /\ NumRequests = 0
       /\ pulled = 0
       /\ yielded = <<>> /\ delivered = <<>>
       /\ InFlight = {} /\ floating = {}
       /\ DOMAIN slot = {}
       /\ streamStatus \in {"open", "returned"}
       /\ (started /\ streamStatus = "open") => ENABLED StreamReturn

C14_Witness ==
    /\ docs = <<>> /\ request_size >= 1
    /\ streamStatus = "returned"
    /\ yielded = <<>>

\* ------------------------------------------------------------ construction
\* C15: on a graph with a cycle the constructor never returns a streamer: on
\* every attempt it has either not yet built the graph or has raised there,
\* with no connection in the pool and no request admitted.
C15_CycleRejected ==
    HasCycle(graph_representation)
    => /\ ~Constructed
       /\ ctorPos = 0
       /\ connections = <<>>
       /\ ~started /\ pulled = 0
       /\ ENABLED CtorStep => ~ctorFailed /\ ~(ENABLED StreamCall)

C15_Witness ==
    /\ HasCycle(graph_representation)
    /\ ctorFailed
    /\ ctorTries = 2
    /\ connections = <<>>

\* The replica addresses an address book gives a deployment: the elements of
\* a list, or the one address given as a str.
Configured(e) ==
    IF e.addresses.kind = "list" THEN Range(e.addresses.items) ELSE {e.addresses.items[1]}

ExpectedConnections ==
    UNION {{[deployment |-> e.name, address |-> a] : a \in Configured(e)} :
              e \in Range(executor_addresses)}

\* C19: once the constructor has returned, the pool holds exactly one
\* connection per configured replica address of each deployment, under that
\* full address, and nothing else.
C19_OneConnectionPerReplica ==
    Constructed
    => /\ Range(connections) = ExpectedConnections
       /\ Len(connections) = Cardinality(ExpectedConnections)

\* ----------------------------------------------------- claims on the runtime
\* C16: teardown flushes and shuts down telemetry only after async_teardown
\* (close) has completed, and stops and closes the loop only after it too.
C16_CloseBeforeTelemetry ==
    /\ TdDone("teardown_instrumentation") => TdDone("async_teardown")
    /\ TdDone("loop_stop") => TdDone("async_teardown")
    /\ TdDone("loop_close") => TdDone("async_teardown")

\* C17, unamended: while run_forever runs, a set cancel event always leads to
\* the one invocation of async_cancel.
C17_CancelAlwaysInvoked ==
    (is_cancel /\ rfState = "running") ~> (cancelCalls = 1)

\* C17: a handled signal sets the cancel event, and the event stays set;
\* async_cancel is invoked at most once and never while the event is unset;
\* while run_forever runs, a set event leads to that invocation unless the
\* loop body is cancelled first; for both kinds of event.
C17_CancelEvent ==
    /\ [][(\E sig \in HANDLED_SIGNALS : Signal(sig)) => is_cancel']_vars
    /\ [][is_cancel => is_cancel']_vars
    /\ [](cancelCalls <= 1 /\ (cancelCalls = 1 => is_cancel))
    /\ \A kind \in {"asyncio", "threading"} :
          (eventKind = kind /\ is_cancel /\ rfState = "running")
             ~> (cancelCalls = 1 \/ bodyCancelled)

C17_Witness ==
    /\ eventKind = "threading"
    /\ is_cancel
    /\ cancelCalls = 1
    /\ ~bodyCancelled

\* C18, unamended: run_forever has returned only with the cancel event set.
C18_ReturnsOnlyWhenSet ==
    rfState = "returned" => is_cancel

\* C18: run_forever returns either because the loop body was cancelled, or
\* with the cancel event set, async_cancel invoked once and async_run_forever
\* finished; while the event is unset it cannot return by itself, also when
\* async_run_forever has finished; once the event is set while it runs, it
\* returns.
C18_RunForever ==
    /\ [](rfState = "returned" =>
             \/ bodyCancelled
             \/ is_cancel /\ cancelCalls = 1 /\ arfState = "finished")
    /\ []((rfState = "running" /\ ~is_cancel) => ~(ENABLED LoopBodyReturn))
    /\ (is_cancel /\ rfState = "running") ~> (rfState = "returned")

C18_Witness ==
    /\ rfState = "returned"
    /\ ~bodyCancelled
    /\ is_cancel
    /\ cancelCalls = 1

\* ------------------------------------------------------------ cancellation
StreamStopped == streamStatus \in {"stopped", "cancelled"}

\* C20: once the consumer has stopped or the cancel signal has fired, no
\* further request is pulled and none is delivered, a dispatch in flight can
\* only end in CANCELLED and stays there; unless the hard-shutdown flag is
\* set, the cancellation leaves every registered floating task in the
\* registry, which thereafter loses a task only when that task has run, and
\* close() does not close the pool before those registered at its call have.
C20_Cancellation ==
    /\ [][StreamStopped =>
            /\ pulled' = pulled
            /\ delivered' = delivered /\ yielded' = yielded
            /\ \A i \in 1..NumRequests :
                  /\ slot[i] = "IN_FLIGHT" => slot'[i] \in {"IN_FLIGHT", "CANCELLED"}
                  /\ slot[i] = "CANCELLED" => slot'[i] = "CANCELLED"]_vars
    /\ [][(~StreamStopped /\ StreamStopped' /\ ~hardShutdown) => floating' = floating]_vars
    /\ [][(StreamStopped /\ ~hardShutdown /\ floating' # floating)
              => \E i \in floating, o \in ReplicaOutcomes : FloatingRun(i, o)]_vars
    /\ []((StreamStopped /\ ~hardShutdown /\ closePhase = "closing")
             => floatAtClose \cap floating = {})

C20_Witness ==
    /\ streamStatus = "cancelled"
    /\ ~hardShutdown
    /\ \E i \in 1..NumRequests : slot[i] = "CANCELLED"
    /\ pulled < NumRequests
    /\ floatAtClose # {}
    /\ closePhase = "idle"
    /\ closeReturned = 1

\* ---------------------------------------------------------- floating tasks
\* C21: a response that is ready (and, in order, whose earlier requests are
\* done) can be delivered whether or not a floating task of its request is
\* still running; a task leaves the floating-task set only by completing;
\* and close() gets past wait_floating_requests_end() only with the set
\* empty.
C21_FloatingNotAwaited ==
    /\ [](\A i \in 1..NumRequests :
            (/\ streamStatus = "open"
             /\ slot[i] = "READY"
             /\ results_in_order => \A j \in 1..(i - 1) : slot[j] = "DONE")
            => ENABLED Deliver(i))
    /\ [][\A i \in floating :
            i \notin floating' => \E o \in ReplicaOutcomes : FloatingRun(i, o)]_vars
    /\ [][(closePhase = "waiting" /\ closePhase' = "closing") => floating = {}]_vars

\* The response of request 1 was yielded while its floating task still runs,
\* and a close() is waiting for it.
C21_Witness ==
    /\ NumRequests >= 1
    /\ slot[1] = "DONE"
    /\ 1 \in floating
    /\ Len(yielded) >= 1
    /\ closePhase = "waiting"

\* ------------------------------------------------------------ get_streamer
\* C22, unamended: get_streamer() constructs from GATEWAY_STREAMER_ARGS when
\* that variable is set, and fails when it is not.
C22_GatewayArgsRoundTrip ==
    [][GetStreamer =>
         /\ environ["GATEWAY_STREAMER_ARGS"] = None => getResult'[1].args = None
         /\ \A k \in KwargsChoices :
               environ["GATEWAY_STREAMER_ARGS"] = Some(JsonDumps(k))
                  => getResult'[1].args = Some(k)]_vars

\* C22: get_streamer() constructs the streamer with exactly the keyword
\* arguments whose JSON serialization is in JINA_STREAMER_ARGS, and when that
\* variable is not set it fails with OSError and constructs nothing.
C22_StreamerArgsRoundTrip ==
    [][GetStreamer =>
         /\ environ["JINA_STREAMER_ARGS"] = None
               => getResult'[1].error = "OSError" /\ getResult'[1].args = None
         /\ \A k \in KwargsChoices :
               environ["JINA_STREAMER_ARGS"] = Some(JsonDumps(k))
                  => getResult'[1].error = "" /\ getResult'[1].args = Some(k)]_vars

\* get_streamer() has rebuilt a streamer whose one deployment has a str
\* address, from arguments written by _set_env_streamer_args.
C22_Witness ==
    /\ environ["JINA_STREAMER_ARGS"] # None
    /\ getResult # None
    /\ getResult[1].error = ""
    /\ getResult[1].args[1].executor_addresses[1].addresses = AddrStr(R1)

\* ------------------------------------------------------------------ warmup
WarmupEnded == {"ok", "failed", "stopped"}

\* C23: warmup runs one pool warmup per configured deployment; it returns,
\* and then silently, only when each of them has succeeded, failed or
\* stopped, a stop only ever following the stop event; it can return as soon
\* as they all have; the one way it raises is its own cancellation, and by
\* then every warmup still running has been cancelled.
C23_WarmupTerminates ==
    /\ wuPc \in {"none", "gathering", "returned", "cancelled"}
    /\ wuPc # "none" => DOMAIN wuTask = DeploymentKeys
    /\ wuPc = "returned" => \A d \in DOMAIN wuTask : wuTask[d] \in WarmupEnded
    /\ wuPc = "cancelled" =>
          \A d \in DOMAIN wuTask : wuTask[d] \in WarmupEnded \cup {"cancelled"}
    /\ \A d \in DOMAIN wuTask : wuTask[d] = "stopped" => stop_event
    /\ (wuPc = "gathering" /\ \A d \in DOMAIN wuTask : wuTask[d] \in WarmupEnded)
          => ENABLED WarmupReturn

\* warmup has returned with one deployment failed and the other stopped.
C23_Witness ==
    /\ wuPc = "returned"
    /\ \E d \in DOMAIN wuTask : wuTask[d] = "failed"
    /\ \E d \in DOMAIN wuTask : wuTask[d] = "stopped"

\* C24: when the constructor has returned, a warmup task that async_setup
\* started is held in warmup_task.
C24_WarmupTaskKept ==
    (RtConstructed /\ setupStartsWarmup) => warmup_task = Some("warmup")

\* ------------------------------------------------------------------- post
\* C25: post has one send per batch of the input, in flight together; it
\* returns only when every send has completed, and what it returns is the
\* documents of the responses joined in batch order, in whatever order the
\* sends completed: the input itself when every executor answer echoes.
C25_PostInBatchOrder ==
    /\ postPc \in {"gathering", "returned"} =>
          /\ Len(postResp) = CeilDiv(Len(docs), request_size)
          /\ \A j \in DOMAIN postResp : PostReqs[j].docs = Batch(docs, request_size)[j]
    /\ postPc = "gathering" =>
          \A j \in DOMAIN postResp :
              postResp[j] = None => \E kind \in ReplyKinds : ENABLED SendRequestsOnceDone(j, kind)
    /\ postPc = "returned" =>
          /\ \A j \in DOMAIN postResp : postResp[j] # None
          /\ Range(postOrder) = DOMAIN postResp
          /\ postDocs = Some(Flatten([j \in DOMAIN postResp |-> postResp[j][1]]))
          /\ (\A j \in DOMAIN postResp : postResp[j][1] = PostReqs[j].docs)
                => postDocs = Some(docs)
    /\ postPc # "returned" => postDocs = None

\* post has returned the input after the sends completed last batch first.
C25_Witness ==
    /\ postPc = "returned"
    /\ Len(postOrder) >= 2
    /\ \A k \in 1..(Len(postOrder) - 1) : postOrder[k] > postOrder[k + 1]
    /\ postDocs = Some(docs)

\* --------------------------------------------- wait_for_ready_or_shutdown
\* C26: without health_check and with any timeout, 0 included, the wait
\* checks no more once the timeout has elapsed and answers False; an RPC
\* error counts as not ready.
C26_FalseOnceTimeoutElapsed ==
    /\ ~IsReady("RpcError")
    /\ (~health_check /\ wTimeout # None /\ wfPc = "body") => elapsed < wTimeout[1]
    /\ (~health_check /\ wTimeout # None /\ wfPc = "test" /\ elapsed >= wTimeout[1])
          => ENABLED (LoopTest /\ wfResult' = Some(FALSE))
====
